---- MODULE Spec2Model ----
(***************************************************************************)
(* LinguaMaster (App.tsx, services/geminiService.ts, the components):      *)
(* the tokenizer, the selection resolver, the lookup coordinator, the      *)
(* language-detection debouncer and the saved-vocabulary list, as one      *)
(* state machine over the React state of App.                              *)
(*                                                                         *)
(* Strings are sequences of one-character strings. A nullable value is a   *)
(* sequence of length 0 (null / undefined) or 1 (the value).               *)
(* Part indices are 0-based, as data-part-index is.                        *)
(***************************************************************************)
EXTENDS Integers, Sequences, FiniteSets, TLC

VARIABLES
    inputText,               \* useState<string>('')
    detectedSourceLanguage,  \* useState<Language | null>(null)
    isDetectingLanguage,     \* useState<boolean>(false)
    targetLanguage,          \* useState<Language>(DEFAULT_TARGET_LANGUAGE)
    processedTextParts,      \* useState<ProcessedTextPart[]>([])
    selectedTerm,            \* useState<string | null>(null)
    wordDetails,             \* useState<WordDetail | null>(null)
    isModalOpen,             \* useState<boolean>(false)
    isLoading,               \* useState<boolean>(false)
    error,                   \* useState<string | null>(null)
    savedWords,              \* useState<SavedWord[]>([])
    lookups,                 \* the getTermDetails calls started so far, in order
    handler,                 \* the pending debounce timer (setTimeout handle)
    detections,              \* the detectLanguage calls that have not returned yet
    now,                     \* Date.now()
    apiKey                   \* process.env.API_KEY is defined

vars == <<inputText, detectedSourceLanguage, isDetectingLanguage, targetLanguage,
          processedTextParts, selectedTerm, wordDetails, isModalOpen, isLoading,
          error, savedWords, lookups, handler, detections, now, apiKey>>

lookupVars == <<selectedTerm, wordDetails, isModalOpen, isLoading, error>>

----------------------------------------------------------------------------
(* Bounds of the model *)

MaxLen == 5          \* longest input text of the typing and selecting specifications
MaxLookups == 2      \* getTermDetails calls started in one behaviour
MaxSaved == 2        \* entries of the saved list
MaxDetections == 2   \* detectLanguage calls outstanding at once
MaxClock == 1        \* largest value Date.now() takes
MaxTyped == 2        \* longest input text of the detection specification

----------------------------------------------------------------------------
(* Values *)

Null == <<>>
Some(x) == <<x>>
IsNull(o) == Len(o) = 0
Val(o) == o[1]

Min(a, b) == IF a <= b THEN a ELSE b
Max(a, b) == IF a >= b THEN a ELSE b

ENGLISH == "English"
SPANISH == "Spanish"
Language == {ENGLISH, SPANISH}
DEFAULT_TARGET_LANGUAGE == ENGLISH

\* the code points the texts of the model are made of
Alphabet == {"a", "B", "7", " ", ","}

RECURSIVE StringsUpTo(_)
StringsUpTo(n) ==
    IF n = 0 THEN {<<>>}
    ELSE LET shorter == StringsUpTo(n - 1)
         IN shorter \cup {Append(s, c) : s \in {t \in shorter : Len(t) = n - 1}, c \in Alphabet}

\* the texts one keystroke away: a code point typed at the end, or the last deleted
Edits(text, maxLen) ==
    {Append(text, c) : c \in IF Len(text) < maxLen THEN Alphabet ELSE {}}
        \cup (IF Len(text) > 0 THEN {SubSeq(text, 1, Len(text) - 1)} ELSE {})

----------------------------------------------------------------------------
(* String primitives *)

\* \p{L}
IsLetter(c) == c \in {"a", "b", "B"}
\* \p{N}
IsNumber(c) == c \in {"7"}
\* \s
IsWhitespace(c) == c \in {" "}

\* String.prototype.toLowerCase, one code point
LowerChar(c) == IF c = "B" THEN "b" ELSE c
toLowerCase(s) == [k \in 1..Len(s) |-> LowerChar(s[k])]

\* String.prototype.substring(from, to), 0-based, to exclusive
Substring(s, from, to) == [k \in 1..(to - from) |-> s[from + k]]

\* String.prototype.trim
RECURSIVE TrimStart(_)
TrimStart(s) ==
    IF Len(s) > 0 /\ IsWhitespace(s[1]) THEN TrimStart(Tail(s)) ELSE s
RECURSIVE TrimEnd(_)
TrimEnd(s) ==
    IF Len(s) > 0 /\ IsWhitespace(s[Len(s)]) THEN TrimEnd(SubSeq(s, 1, Len(s) - 1)) ELSE s
trim(s) == TrimEnd(TrimStart(s))

\* Array.prototype.slice(from, to), 0-based, to exclusive, clamped to the array
slice(arr, from, to) ==
    LET f == Min(Max(from, 0), Len(arr))
        t == Min(Max(to, 0), Len(arr))
    IN [k \in 1..(t - f) |-> arr[f + k]]

\* Array.prototype.join(' ') over strings
RECURSIVE join(_)
join(strs) ==
    IF Len(strs) = 0 THEN <<>>
    ELSE IF Len(strs) = 1 THEN strs[1]
    ELSE strs[1] \o <<" ">> \o join(Tail(strs))

----------------------------------------------------------------------------
(* Tokenizer: /([\p{L}\p{N}]+)|(\s+)|([^\p{L}\p{N}\s]+)/gu and the exec loop *)

\* the character class of each capture group
GroupClass(g, c) ==
    CASE g = 1 -> IsLetter(c) \/ IsNumber(c)
      [] g = 2 -> IsWhitespace(c)
      [] g = 3 -> ~(IsLetter(c) \/ IsNumber(c) \/ IsWhitespace(c))

\* a lazy quantifier +?: one code point of class g at p, and no more
RunLengthLazy(text, p, g) ==
    IF p < Len(text) /\ GroupClass(g, text[p + 1]) THEN 1 ELSE 0

\* the greedy quantifier +: length of the longest run of class g at 0-based p
RECURSIVE RunLength(_, _, _)
RunLength(text, p, g) ==
    IF p < Len(text) /\ GroupClass(g, text[p + 1])
    THEN 1 + RunLength(text, p + 1, g)
    ELSE 0

\* the alternation without its third group: /([\p{L}\p{N}]+)|(\s+)/gu
MatchAtWordsAndSpaces(text, p) ==
    IF RunLength(text, p, 1) > 0 THEN 1
    ELSE IF RunLength(text, p, 2) > 0 THEN 2
    ELSE 0

\* the alternation with an optional second group: /([\p{L}\p{N}]+)|(\s*)|.../gu,
\* whose second group matches the empty string wherever the first does not
MatchAtOptionalSpaces(text, p) ==
    IF RunLength(text, p, 1) > 0 THEN 1 ELSE 2

\* the alternation tried at one position: the first group that matches, or 0
MatchAt(text, p) ==
    IF RunLength(text, p, 1) > 0 THEN 1
    ELSE IF RunLength(text, p, 2) > 0 THEN 2
    ELSE IF RunLength(text, p, 3) > 0 THEN 3
    ELSE 0

\* RegExp.prototype.exec of a global regex: the first position at or after
\* lastIndex where the pattern matches; null when there is none
RECURSIVE exec(_, _)
exec(text, lastIndex) ==
    IF lastIndex >= Len(text) THEN Null
    ELSE LET g == MatchAt(text, lastIndex)
         IN IF g = 0 THEN exec(text, lastIndex + 1)
            ELSE LET n == RunLength(text, lastIndex, g)
                 IN Some([index |-> lastIndex, group |-> g,
                          value |-> Substring(text, lastIndex, lastIndex + n),
                          lastIndex |-> lastIndex + n])

\* the part pushed for one match
NewPart(match, n) ==
    LET value == match.value
    IN CASE match.group = 1 ->
              [type |-> "word", value |-> value,
               originalWord |-> Some(toLowerCase(value)),
               id |-> <<"word", n, toLowerCase(value)>>]
         [] match.group = 2 ->
              [type |-> "whitespace", value |-> value,
               originalWord |-> Null, id |-> <<"ws", n, <<>>>>]
         [] match.group = 3 ->
              [type |-> "punctuation", value |-> value,
               originalWord |-> Null, id |-> <<"punct", n, <<>>>>]

\* while ((match = currentRegex.exec(inputText)) !== null) { ... }
RECURSIVE TokenizeLoop(_, _, _)
TokenizeLoop(text, lastIndex, parts) ==
    LET m == exec(text, lastIndex)
    IN IF IsNull(m) THEN parts
       ELSE TokenizeLoop(text, Val(m).lastIndex,
                         IF Len(Val(m).value) > 0
                         THEN Append(parts, NewPart(Val(m), Len(parts)))
                         ELSE parts)

\* the parts the tokenizing effect sets for a text
Tokenize(text) ==
    IF Len(text) = 0 THEN <<>> ELSE TokenizeLoop(text, 0, <<>>)

----------------------------------------------------------------------------
(* Initial state: App mounted, the effects of the first render have run *)

TimerFor(text) == Some([text |-> text])

InitWith(text, key) ==
    /\ inputText = text
    /\ detectedSourceLanguage = Null
    /\ isDetectingLanguage = FALSE
    /\ targetLanguage = DEFAULT_TARGET_LANGUAGE
    /\ processedTextParts = Tokenize(text)
    /\ selectedTerm = Null
    /\ wordDetails = Null
    /\ isModalOpen = FALSE
    /\ isLoading = FALSE
    /\ error = Null
    /\ savedWords = <<>>
    /\ lookups = <<>>
    /\ handler = TimerFor(text)
    /\ detections = <<>>
    /\ now = 0
    /\ apiKey = key

Init == \E key \in BOOLEAN : InitWith(<<>>, key)

----------------------------------------------------------------------------
(* Text change: onChange, then the two effects keyed on inputText *)

\* the detection effect without its cleanup and rescheduling: a timer that is
\* pending stays, with the text it was set for
SetInputTextKeepsTimer(text) ==
    /\ text # inputText
    /\ inputText' = text
    /\ processedTextParts' = Tokenize(text)
    /\ detectedSourceLanguage' =
          IF Len(text) = 0 THEN Null ELSE detectedSourceLanguage
    /\ handler' = IF IsNull(handler) THEN TimerFor(text) ELSE handler
    /\ UNCHANGED <<isDetectingLanguage, targetLanguage, selectedTerm, wordDetails,
                   isModalOpen, isLoading, error, savedWords, lookups, detections,
                   now, apiKey>>

\* the tokenizing effect pushing onto the parts of the previous text
SetInputTextKeepsParts(text) ==
    /\ text # inputText
    /\ inputText' = text
    /\ processedTextParts' = processedTextParts \o Tokenize(text)
    /\ detectedSourceLanguage' =
          IF Len(text) = 0 THEN Null ELSE detectedSourceLanguage
    /\ handler' = TimerFor(text)
    /\ UNCHANGED <<isDetectingLanguage, targetLanguage, selectedTerm, wordDetails,
                   isModalOpen, isLoading, error, savedWords, lookups, detections,
                   now, apiKey>>

SetInputText(text) ==
    /\ text # inputText
    /\ inputText' = text
    \* tokenizing effect
    /\ processedTextParts' = Tokenize(text)
    /\ detectedSourceLanguage' =
          IF Len(text) = 0 THEN Null ELSE detectedSourceLanguage
    \* detection effect: clearTimeout(handler), setTimeout(autoDetect, 500)
    /\ handler' = TimerFor(text)
    /\ UNCHANGED <<isDetectingLanguage, targetLanguage, selectedTerm, wordDetails,
                   isModalOpen, isLoading, error, savedWords, lookups, detections,
                   now, apiKey>>

----------------------------------------------------------------------------
(* Lookup coordinator: handleTermClick and getTermDetails *)

\* setError messages of handleTermClick
MALFORMED_MESSAGE == "The AI could not process this phrase into the requested format."
GENERIC_MESSAGE == "An unexpected error occurred while fetching term details."

\* what ai.models.generateContent resolves with for the text prompt
TextResponses == {"full", "fullWithTranslation", "noDefinition",
                  "noExampleSentences", "unparsable"}
\* what it resolves with for the audio prompt: inlineData present or not
AudioResponses == {"data", "empty"}

\* JSON.parse(cleanJsonStr) as WordDetail: null stands for the thrown SyntaxError.
\* A field that is present holds what the prompt asked for.
JSONParse(response, term, sourceLang, targetLang) ==
    LET inSource == Some([term |-> term, language |-> sourceLang])
        inTarget == Some([term |-> term, language |-> targetLang])
    IN IF response = "unparsable" THEN Null
       ELSE Some([definition |-> IF response = "noDefinition" THEN Null ELSE inSource,
                  exampleSentences |->
                      IF response = "noExampleSentences" THEN Null ELSE inSource,
                  translation |->
                      IF response = "fullWithTranslation" THEN inTarget ELSE Null])

\* audioResponse.candidates?.[0]?.content?.parts?.[0]?.inlineData?.data
InlineData(audio, term) == IF audio = "data" THEN Some(term) ELSE Null

\* the state of Promise.all([textDetailsPromise, audioDetailsPromise])
PromiseAll(text, audio) ==
    IF text = "rejected" \/ audio = "rejected" THEN "rejected"
    ELSE IF text = "pending" \/ audio = "pending" THEN "pending"
    ELSE "fulfilled"

\* what getTermDetails returns once Promise.all has settled: the merged WordDetail,
\* or null from its catch block. threw is whether the error leaves the function.
GetTermDetailsReturn(call) ==
    IF PromiseAll(call.text, call.audio) = "rejected"
    THEN [threw |-> FALSE, details |-> Null]
    ELSE LET textWordDetail == JSONParse(call.text, call.term, call.sourceLanguage,
                                         call.targetLanguage)
         IN IF IsNull(textWordDetail)
            THEN [threw |-> FALSE, details |-> Null]
            ELSE [threw |-> FALSE,
                  details |-> Some([definition |-> Val(textWordDetail).definition,
                                    exampleSentences |-> Val(textWordDetail).exampleSentences,
                                    translation |-> Val(textWordDetail).translation,
                                    audioBase64 |-> InlineData(call.audio, call.term)])]

\* getTermDetails when getGeminiClient throws: the catch block returns null
ClientErrorReturn == [threw |-> FALSE, details |-> Null]

\* handleTermClick with setIsLoading(false) on the success path only, not in
\* a finally block
AfterAwaitKeepsLoadingOnFailure(ret) ==
    /\ wordDetails' = IF ~ret.threw /\ ~IsNull(ret.details) THEN ret.details ELSE wordDetails
    /\ error' = IF ret.threw THEN Some(GENERIC_MESSAGE)
                ELSE IF IsNull(ret.details) THEN Some(MALFORMED_MESSAGE)
                ELSE error
    /\ isLoading' = IF ~ret.threw /\ ~IsNull(ret.details) THEN FALSE ELSE isLoading
    /\ UNCHANGED <<selectedTerm, isModalOpen>>

\* handleTermClick after its await: try / catch / finally
AfterAwait(ret) ==
    /\ wordDetails' = IF ~ret.threw /\ ~IsNull(ret.details) THEN ret.details ELSE wordDetails
    /\ error' = IF ret.threw THEN Some(GENERIC_MESSAGE)
                ELSE IF IsNull(ret.details) THEN Some(MALFORMED_MESSAGE)
                ELSE error
    /\ isLoading' = FALSE
    /\ UNCHANGED <<selectedTerm, isModalOpen>>

\* handleTermClick without its setError(null)
HandleTermClickKeepsError(term, sourceLang, targetLang) ==
    /\ Len(lookups) < MaxLookups
    /\ selectedTerm' = Some(term)
    /\ wordDetails' = Null
    /\ isModalOpen' = TRUE
    /\ isLoading' = TRUE
    /\ lookups' = Append(lookups,
          [term |-> term, sourceLanguage |-> sourceLang, targetLanguage |-> targetLang,
           text |-> IF apiKey THEN "pending" ELSE "none",
           audio |-> IF apiKey THEN "pending" ELSE "none",
           returned |-> FALSE])
    /\ UNCHANGED <<inputText, detectedSourceLanguage, isDetectingLanguage,
                   targetLanguage, processedTextParts, savedWords, handler,
                   detections, now, apiKey, error>>

\* handleTermClick up to its await, with the two generateContent calls issued
HandleTermClick(term, sourceLang, targetLang) ==
    /\ Len(lookups) < MaxLookups
    /\ selectedTerm' = Some(term)
    /\ wordDetails' = Null
    /\ isModalOpen' = TRUE
    /\ isLoading' = TRUE
    /\ error' = Null
    /\ lookups' = Append(lookups,
          [term |-> term, sourceLanguage |-> sourceLang, targetLanguage |-> targetLang,
           text |-> IF apiKey THEN "pending" ELSE "none",
           audio |-> IF apiKey THEN "pending" ELSE "none",
           returned |-> FALSE])
    /\ UNCHANGED <<inputText, detectedSourceLanguage, isDetectingLanguage,
                   targetLanguage, processedTextParts, savedWords, handler,
                   detections, now, apiKey>>

effectiveSourceLanguage ==
    IF IsNull(detectedSourceLanguage) THEN ENGLISH ELSE Val(detectedSourceLanguage)

\* a call that has returned keeps only which of its promises are still pending:
\* nothing reads the rest of it again
Returned(call) ==
    [term |-> <<>>, sourceLanguage |-> ENGLISH, targetLanguage |-> ENGLISH,
     text |-> IF call.text = "pending" THEN "pending" ELSE "settled",
     audio |-> IF call.audio = "pending" THEN "pending" ELSE "settled",
     returned |-> TRUE]

\* getGeminiClient threw: getTermDetails returns null without calling the provider
ClientError(k) ==
    /\ k \in 1..Len(lookups)
    /\ lookups[k].text = "none"
    /\ ~lookups[k].returned
    /\ lookups' = [lookups EXCEPT ![k] = Returned(lookups[k])]
    /\ AfterAwait(ClientErrorReturn)
    /\ UNCHANGED <<inputText, detectedSourceLanguage, isDetectingLanguage,
                   targetLanguage, processedTextParts, savedWords, handler,
                   detections, now, apiKey>>

\* one generateContent promise of call k settles; when that settles Promise.all,
\* getTermDetails returns and handleTermClick continues
Settle(k, text, audio) ==
    LET call == [lookups[k] EXCEPT !.text = text, !.audio = audio]
        settled == PromiseAll(text, audio) # "pending"
    IN /\ lookups' = [lookups EXCEPT
                         ![k] = IF lookups[k].returned \/ settled
                                THEN Returned(call) ELSE call]
       /\ IF settled /\ ~lookups[k].returned
          THEN AfterAwait(GetTermDetailsReturn(call))
          ELSE UNCHANGED lookupVars
       /\ UNCHANGED <<inputText, detectedSourceLanguage, isDetectingLanguage,
                      targetLanguage, processedTextParts, savedWords, handler,
                      detections, now, apiKey>>

TextSettles(k, outcome) ==
    /\ k \in 1..Len(lookups)
    /\ lookups[k].text = "pending"
    /\ Settle(k, outcome, lookups[k].audio)

AudioSettles(k, outcome) ==
    /\ k \in 1..Len(lookups)
    /\ lookups[k].audio = "pending"
    /\ Settle(k, lookups[k].text, outcome)

handleCloseModal ==
    /\ isModalOpen
    /\ isModalOpen' = FALSE
    /\ selectedTerm' = Null
    /\ wordDetails' = Null
    /\ error' = Null
    /\ UNCHANGED <<inputText, detectedSourceLanguage, isDetectingLanguage,
                   targetLanguage, processedTextParts, isLoading, savedWords,
                   lookups, handler, detections, now, apiKey>>

\* clearInput and, when the text changed, the two effects keyed on inputText
clearInput ==
    /\ inputText' = <<>>
    /\ processedTextParts' = <<>>
    /\ selectedTerm' = Null
    /\ wordDetails' = Null
    /\ isModalOpen' = FALSE
    /\ isLoading' = FALSE
    /\ error' = Null
    /\ detectedSourceLanguage' = Null
    /\ isDetectingLanguage' = FALSE
    /\ handler' = IF inputText # <<>> THEN TimerFor(<<>>) ELSE handler
    /\ UNCHANGED <<targetLanguage, savedWords, lookups, detections, now, apiKey>>

setTargetLanguage(lang) ==
    /\ targetLanguage' = lang
    /\ UNCHANGED <<inputText, detectedSourceLanguage, isDetectingLanguage,
                   processedTextParts, selectedTerm, wordDetails, isModalOpen,
                   isLoading, error, savedWords, lookups, handler, detections,
                   now, apiKey>>

----------------------------------------------------------------------------
(* Clicks and selections in the clickable text, and in the saved list *)

\* onClick of the button of the word part at index
WordClick(index) ==
    /\ index \in 0..(Len(processedTextParts) - 1)
    /\ processedTextParts[index + 1].type = "word"
    /\ HandleTermClick(Val(processedTextParts[index + 1].originalWord),
                       effectiveSourceLanguage, targetLanguage)

\* what window.getSelection() holds at mouseup: "none" (no selection or no range),
\* "collapsed", "outside" (not within the clickable text) or "range"; startIdx and
\* endIdx are the data-part-index of the endpoints' parts, -1 when there is none
Selections ==
    {[kind |-> k, startIdx |-> -1, endIdx |-> -1] : k \in {"none", "collapsed", "outside"}}
        \cup [kind : {"range"},
              startIdx : -1..(Len(processedTextParts) - 1),
              endIdx : -1..(Len(processedTextParts) - 1)]

\* the filter keeping every part that is not whitespace
filterNotWhitespace(parts) == SelectSeq(parts, LAMBDA p : p.type # "whitespace")

filterWord(parts) == SelectSeq(parts, LAMBDA p : p.type = "word")
mapValue(parts) == [k \in 1..Len(parts) |-> parts[k].value]

\* the same with slice(actualStartIdx, actualEndIdx): the end part left out
SelectedWordPartsExclusive(startIdx, endIdx) ==
    LET actualStartIdx == Min(startIdx, endIdx)
        actualEndIdx == Max(startIdx, endIdx)
        relevantParts == slice(processedTextParts, actualStartIdx, actualEndIdx)
    IN filterWord(relevantParts)

\* the same without Math.min / Math.max: slice(startIdx, endIdx + 1)
SelectedWordPartsUnordered(startIdx, endIdx) ==
    filterWord(slice(processedTextParts, startIdx, endIdx + 1))

\* the word parts handleMouseUp keeps for a range
SelectedWordParts(startIdx, endIdx) ==
    LET actualStartIdx == Min(startIdx, endIdx)
        actualEndIdx == Max(startIdx, endIdx)
        relevantParts == slice(processedTextParts, actualStartIdx, actualEndIdx + 1)
    IN filterWord(relevantParts)

\* handleMouseUp testing relevantParts.length >= 2: the parts before the filter
handleMouseUpCountsAllParts(selection) ==
    IF selection.kind # "range" \/ selection.startIdx = -1 \/ selection.endIdx = -1
    THEN UNCHANGED vars
    ELSE LET lo == Min(selection.startIdx, selection.endIdx)
             hi == Max(selection.startIdx, selection.endIdx)
             selectedWordParts == SelectedWordParts(selection.startIdx, selection.endIdx)
         IN IF Len(slice(processedTextParts, lo, hi + 1)) >= 2
            THEN HandleTermClick(join(mapValue(selectedWordParts)),
                                 effectiveSourceLanguage, targetLanguage)
            ELSE UNCHANGED vars

handleMouseUp(selection) ==
    IF selection.kind # "range" \/ selection.startIdx = -1 \/ selection.endIdx = -1
    THEN UNCHANGED vars
    ELSE LET selectedWordParts == SelectedWordParts(selection.startIdx, selection.endIdx)
         IN IF Len(selectedWordParts) >= 2
            THEN HandleTermClick(join(mapValue(selectedWordParts)),
                                 effectiveSourceLanguage, targetLanguage)
            ELSE UNCHANGED vars

\* onClick of the term button of the saved entry at position i
SavedTermClick(i) ==
    /\ i \in 1..Len(savedWords)
    /\ HandleTermClick(savedWords[i].term, savedWords[i].sourceLanguage,
                       savedWords[i].targetLanguage)

----------------------------------------------------------------------------
(* Saved vocabulary *)

\* the same comparing sw.targetLanguage with the language
isAlreadySavedByTarget(term, lang) ==
    \E i \in 1..Len(savedWords) :
        savedWords[i].term = term /\ savedWords[i].targetLanguage = lang

isAlreadySaved(term, lang) ==
    \E i \in 1..Len(savedWords) :
        savedWords[i].term = term /\ savedWords[i].sourceLanguage = lang

isCurrentTermSaved ==
    ~IsNull(selectedTerm) /\ isAlreadySaved(Val(selectedTerm), effectiveSourceLanguage)

\* the Modal shows the WordDetailCard, and with it the Save button, enabled
SaveButtonShown ==
    /\ isModalOpen
    /\ ~IsNull(wordDetails) /\ ~isLoading /\ IsNull(error)
    /\ ~isCurrentTermSaved

\* handleSaveWord replacing the entry of an already saved pair by the new one
handleSaveWordUpdates(t) ==
    /\ now' = t
    /\ IF ~IsNull(selectedTerm) /\ ~IsNull(wordDetails) /\ ~isLoading
       THEN LET newSavedWord == [term |-> Val(selectedTerm),
                   sourceLanguage |-> effectiveSourceLanguage,
                   targetLanguage |-> targetLanguage,
                   details |-> Val(wordDetails),
                   savedAt |-> t]
            IN IF isAlreadySaved(Val(selectedTerm), effectiveSourceLanguage)
               THEN savedWords' = [i \in 1..Len(savedWords) |->
                        IF /\ savedWords[i].term = newSavedWord.term
                           /\ savedWords[i].sourceLanguage = newSavedWord.sourceLanguage
                        THEN newSavedWord ELSE savedWords[i]]
               ELSE /\ Len(savedWords) < MaxSaved
                    /\ savedWords' = Append(savedWords, newSavedWord)
       ELSE UNCHANGED savedWords
    /\ UNCHANGED <<inputText, detectedSourceLanguage, isDetectingLanguage,
                   targetLanguage, processedTextParts, selectedTerm, wordDetails,
                   isModalOpen, isLoading, error, lookups, handler, detections, apiKey>>
\* handleSaveWord with [newSavedWord, ...prev]
handleSaveWordPrepends(t) ==
    /\ now' = t
    /\ IF ~IsNull(selectedTerm) /\ ~IsNull(wordDetails) /\ ~isLoading
          /\ ~isAlreadySaved(Val(selectedTerm), effectiveSourceLanguage)
       THEN /\ Len(savedWords) < MaxSaved
            /\ savedWords' = <<[term |-> Val(selectedTerm),
                   sourceLanguage |-> effectiveSourceLanguage,
                   targetLanguage |-> targetLanguage,
                   details |-> Val(wordDetails),
                   savedAt |-> t]>> \o savedWords
       ELSE UNCHANGED savedWords
    /\ UNCHANGED <<inputText, detectedSourceLanguage, isDetectingLanguage,
                   targetLanguage, processedTextParts, selectedTerm, wordDetails,
                   isModalOpen, isLoading, error, lookups, handler, detections, apiKey>>
\* handleSaveWord without its test of selectedTerm, saving selectedTerm || ''
handleSaveWordWithoutTerm(t) ==
    /\ now' = t
    /\ LET term == IF IsNull(selectedTerm) THEN <<>> ELSE Val(selectedTerm)
       IN IF ~IsNull(wordDetails) /\ ~isLoading
             /\ ~isAlreadySaved(term, effectiveSourceLanguage)
          THEN /\ Len(savedWords) < MaxSaved
               /\ savedWords' = Append(savedWords,
                     [term |-> term,
                      sourceLanguage |-> effectiveSourceLanguage,
                      targetLanguage |-> targetLanguage,
                      details |-> Val(wordDetails),
                      savedAt |-> t])
          ELSE UNCHANGED savedWords
    /\ UNCHANGED <<inputText, detectedSourceLanguage, isDetectingLanguage,
                   targetLanguage, processedTextParts, selectedTerm, wordDetails,
                   isModalOpen, isLoading, error, lookups, handler, detections, apiKey>>
\* handleSaveWord at clock time t
handleSaveWord(t) ==
    /\ now' = t
    /\ IF ~IsNull(selectedTerm) /\ ~IsNull(wordDetails) /\ ~isLoading
          /\ ~isAlreadySaved(Val(selectedTerm), effectiveSourceLanguage)
       THEN /\ Len(savedWords) < MaxSaved
            /\ savedWords' = Append(savedWords,
                  [term |-> Val(selectedTerm),
                   sourceLanguage |-> effectiveSourceLanguage,
                   targetLanguage |-> targetLanguage,
                   details |-> Val(wordDetails),
                   savedAt |-> t])
       ELSE UNCHANGED savedWords
    /\ UNCHANGED <<inputText, detectedSourceLanguage, isDetectingLanguage,
                   targetLanguage, processedTextParts, selectedTerm, wordDetails,
                   isModalOpen, isLoading, error, lookups, handler, detections, apiKey>>

SaveClick == SaveButtonShown /\ \E t \in now..MaxClock : handleSaveWord(t)

\* handleRemoveWord filtering on the term alone
handleRemoveWordByTerm(termToRemove, lang) ==
    /\ savedWords' = SelectSeq(savedWords, LAMBDA sw : ~(sw.term = termToRemove))
    /\ UNCHANGED <<inputText, detectedSourceLanguage, isDetectingLanguage,
                   targetLanguage, processedTextParts, selectedTerm, wordDetails,
                   isModalOpen, isLoading, error, lookups, handler, detections,
                   now, apiKey>>

handleRemoveWord(termToRemove, lang) ==
    /\ savedWords' = SelectSeq(savedWords,
          LAMBDA sw : ~(sw.term = termToRemove /\ sw.sourceLanguage = lang))
    /\ UNCHANGED <<inputText, detectedSourceLanguage, isDetectingLanguage,
                   targetLanguage, processedTextParts, selectedTerm, wordDetails,
                   isModalOpen, isLoading, error, lookups, handler, detections,
                   now, apiKey>>

\* onClick of the Remove button of the saved entry at position i
RemoveClick(i) ==
    /\ i \in 1..Len(savedWords)
    /\ handleRemoveWord(savedWords[i].term, savedWords[i].sourceLanguage)

----------------------------------------------------------------------------
(* Language detection: the debounced autoDetect and detectLanguage *)

\* the debounce timer fires: autoDetect up to its await
autoDetect ==
    /\ ~IsNull(handler)
    /\ handler' = Null
    /\ IF Len(trim(Val(handler).text)) > 0
       THEN /\ Len(detections) < MaxDetections
            /\ isDetectingLanguage' = TRUE
            /\ detections' = Append(detections, Val(handler).text)
            /\ UNCHANGED detectedSourceLanguage
       ELSE /\ detectedSourceLanguage' = Null
            /\ UNCHANGED <<isDetectingLanguage, detections>>
    /\ UNCHANGED <<inputText, targetLanguage, processedTextParts, selectedTerm,
                   wordDetails, isModalOpen, isLoading, error, savedWords, lookups,
                   now, apiKey>>

\* what detectLanguage can return: a mapped language, or null (unmapped answer,
\* any thrown error, no API key)
DetectLanguageReturns == IF apiKey THEN {Null} \cup {Some(l) : l \in Language} ELSE {Null}

\* detectLanguage call i returns: autoDetect after its await
DetectionReturns(i, lang) ==
    /\ i \in 1..Len(detections)
    /\ detectedSourceLanguage' = lang
    /\ isDetectingLanguage' = FALSE
    /\ detections' = [k \in 1..(Len(detections) - 1) |->
                         IF k < i THEN detections[k] ELSE detections[k + 1]]
    /\ UNCHANGED <<inputText, targetLanguage, processedTextParts, selectedTerm,
                   wordDetails, isModalOpen, isLoading, error, savedWords, lookups,
                   handler, now, apiKey>>

----------------------------------------------------------------------------
(* The coordinator: a short text, lookups from it and from the saved list, the
   provider's answers, the modal and the saved list *)

SampleTexts == {<<>>, <<"B", " ", "B">>}
\* a well-formed payload, one that lacks a required field, one that does not
\* parse, and a rejected call
CoordinatorTextOutcomes == {"full", "noDefinition", "unparsable", "rejected"}
AudioOutcomes == AudioResponses \cup {"rejected"}
\* a drag over the whole text, in either direction, and a plain click's mouseup
CoordinatorSelections ==
    {sel \in Selections :
        \/ sel.kind = "collapsed"
        \/ /\ sel.kind = "range"
           /\ {sel.startIdx, sel.endIdx} = {0, Len(processedTextParts) - 1}}

Next ==
    \/ \E text \in SampleTexts : SetInputText(text)
    \/ \E index \in 0..(Len(processedTextParts) - 1) : WordClick(index)
    \/ \E selection \in CoordinatorSelections : handleMouseUp(selection)
    \/ \E i \in 1..Len(savedWords) : SavedTermClick(i)
    \/ \E k \in 1..Len(lookups) : ClientError(k)
    \/ \E k \in 1..Len(lookups), outcome \in CoordinatorTextOutcomes :
          TextSettles(k, outcome)
    \/ \E k \in 1..Len(lookups), outcome \in AudioOutcomes : AudioSettles(k, outcome)
    \/ handleCloseModal
    \/ clearInput
    \/ SaveClick
    \/ \E i \in 1..Len(savedWords) : RemoveClick(i)

Spec == Init /\ [][Next]_vars

----------------------------------------------------------------------------
(* Typing only: every text up to MaxLen, one keystroke at a time *)

NextTok == \E text \in Edits(inputText, MaxLen) : SetInputText(text)

SpecTok == Init /\ [][NextTok]_vars

----------------------------------------------------------------------------
(* Selecting only: any text up to MaxLen is on display and the API key is set;
   the first click or drag on it *)

\* texts of letters, spaces and commas
SelectionTexts ==
    {text \in StringsUpTo(MaxLen) : \A k \in 1..Len(text) : ~IsNumber(text[k])}

InitSel == \E text \in SelectionTexts : InitWith(text, TRUE)

NextSel ==
    /\ lookups = <<>>
    /\ \/ \E index \in 0..(Len(processedTextParts) - 1) : WordClick(index)
       \/ \E selection \in Selections : handleMouseUp(selection)

SpecSel == InitSel /\ [][NextSel]_vars

----------------------------------------------------------------------------
(* The saved list: the text "B B" with the API key set, lookups of the word
   "b" one at a time, the audio answering before the text, detection changing
   the source language, and the two handlers of the list called in every
   state *)

StoreText == <<"B", " ", "B">>
StoreTerms == {<<"b">>, <<"B", " ", "B">>}
StoreTextOutcomes == {"full", "rejected"}
StoreAudioOutcomes == {"data"}
\* detectLanguage answers Spanish, or null
StoreDetections == {Null, Some(SPANISH)}

InitStore == InitWith(StoreText, TRUE)

\* handleSaveWord called, whatever the Modal shows
SaveCall == \E t \in now..MaxClock : handleSaveWord(t)

\* handleRemoveWord called for a pair, saved ("b") or not ("B B")
RemoveCall(term, lang) == handleRemoveWord(term, lang)

\* every getTermDetails call started so far has returned
NoCallOutstanding == \A k \in 1..Len(lookups) : lookups[k].returned

NextStore ==
    \/ \E text \in SampleTexts : SetInputText(text)
    \/ /\ NoCallOutstanding
       /\ \/ \E index \in 0..(Len(processedTextParts) - 1) : WordClick(index)
          \/ \E i \in 1..Len(savedWords) : SavedTermClick(i)
    \/ \E k \in 1..Len(lookups), outcome \in StoreAudioOutcomes :
          AudioSettles(k, outcome)
    \/ \E k \in 1..Len(lookups), outcome \in StoreTextOutcomes :
          lookups[k].audio # "pending" /\ TextSettles(k, outcome)
    \/ handleCloseModal
    \/ clearInput
    \/ autoDetect
    \/ \E i \in 1..Len(detections), lang \in StoreDetections :
          DetectionReturns(i, lang)
    \/ SaveCall
    \/ \E term \in StoreTerms, lang \in Language : RemoveCall(term, lang)

SpecStore == InitStore /\ [][NextStore]_vars

----------------------------------------------------------------------------
(* Detection: typing letters and spaces one keystroke at a time, the debounce
   timer, the detectLanguage calls and the Clear button *)

DetectionTexts ==
    {text \in StringsUpTo(MaxTyped) : \A k \in 1..Len(text) : text[k] \in {"a", " "}}

NextDet ==
    \/ \E text \in Edits(inputText, MaxTyped) \cap DetectionTexts : SetInputText(text)
    \/ clearInput
    \/ autoDetect
    \/ \E i \in 1..Len(detections), lang \in DetectLanguageReturns :
          DetectionReturns(i, lang)

SpecDet == Init /\ [][NextDet]_vars

----------------------------------------------------------------------------
(* Languages: the text "B B" with the API key set, lookups of "b" one at a
   time, the target-language selector, detection changing the source
   language, and text payloads with and without a translation *)

LangTextOutcomes == {"full", "fullWithTranslation"}

NextLang ==
    \/ /\ NoCallOutstanding
       /\ \E index \in 0..(Len(processedTextParts) - 1) : WordClick(index)
    \/ \E k \in 1..Len(lookups), outcome \in StoreAudioOutcomes :
          AudioSettles(k, outcome)
    \/ \E k \in 1..Len(lookups), outcome \in LangTextOutcomes :
          lookups[k].audio # "pending" /\ TextSettles(k, outcome)
    \/ handleCloseModal
    \/ \E lang \in Language : setTargetLanguage(lang)
    \/ autoDetect
    \/ \E i \in 1..Len(detections), lang \in StoreDetections :
          DetectionReturns(i, lang)

SpecLang == InitStore /\ [][NextLang]_vars

----------------------------------------------------------------------------
(* Progress of a lookup: the text "B B" with or without the API key, lookups
   of "b" started only when no call is outstanding, the modal closed at any
   time, and every promise that was created settling sooner or later *)

InitLive == \E key \in BOOLEAN : InitWith(StoreText, key)

\* getGeminiClient throws in some call that has not returned
ClientErrors == \E k \in 1..Len(lookups) : ClientError(k)
\* the text promise of some call settles
TextPromiseSettles ==
    \E k \in 1..Len(lookups), outcome \in CoordinatorTextOutcomes :
        TextSettles(k, outcome)
\* the audio promise of some call settles
AudioPromiseSettles ==
    \E k \in 1..Len(lookups), outcome \in AudioOutcomes : AudioSettles(k, outcome)

NextLive ==
    \/ /\ NoCallOutstanding
       /\ \E index \in 0..(Len(processedTextParts) - 1) : WordClick(index)
    \/ ClientErrors
    \/ TextPromiseSettles
    \/ AudioPromiseSettles
    \/ handleCloseModal

\* the synchronous throw of getGeminiClient is taken as soon as the call
\* runs; the provider's promises are assumed to settle and not to hang
SpecLive ==
    /\ InitLive
    /\ [][NextLive]_vars
    /\ WF_vars(ClientErrors)
    /\ WF_vars(TextPromiseSettles)
    /\ WF_vars(AudioPromiseSettles)

----------------------------------------------------------------------------
(* The visible lookup state *)

Pending == isLoading
Resolved == ~isLoading /\ ~IsNull(wordDetails) /\ IsNull(error)
Failed == ~isLoading /\ ~IsNull(error)
\* the Modal shows the WordDetailCard for selectedTerm
Displayed == isModalOpen /\ ~isLoading /\ ~IsNull(wordDetails) /\ IsNull(error)

\* this step is the one in which getTermDetails call k returns
CallReturns(k) ==
    /\ k \in 1..Len(lookups)
    /\ ~lookups[k].returned
    /\ Len(lookups') = Len(lookups)
    /\ lookups'[k].returned

\* this step starts a lookup
LookupStarts == Len(lookups') = Len(lookups) + 1

\* the terms the present fields of a WordDetail are about
TermsOf(details) ==
    {Val(f).term : f \in {g \in {details.definition, details.exampleSentences,
                                   details.translation} : ~IsNull(g)}}
        \cup (IF IsNull(details.audioBase64) THEN {} ELSE {Val(details.audioBase64)})

----------------------------------------------------------------------------
(* Claims about the lookup coordinator, under Spec *)

\* C1: once a later lookup has been started, the return of an earlier
\* getTermDetails call changes nothing of the visible lookup state (result,
\* error, loading flag).
C1_PreemptedCallChangesNothing ==
    [][\A k \in 1..Len(lookups) :
          (CallReturns(k) /\ k < Len(lookups))
              => UNCHANGED <<wordDetails, error, isLoading>>]_vars

\* C2: the WordDetail displayed for the active term, and the details of every
\* saved entry, are about the term they are displayed or saved under.
C2_DetailsMatchTheirTerm ==
    /\ Displayed =>
          /\ ~IsNull(selectedTerm)
          /\ TermsOf(Val(wordDetails)) \subseteq {Val(selectedTerm)}
    /\ \A i \in 1..Len(savedWords) :
          TermsOf(savedWords[i].details) \subseteq {savedWords[i].term}

\* C3: when the text call of the current attempt has been fulfilled with a
\* well-formed payload, the attempt ends Resolved however the audio call
\* settles; with audio that failed or is empty the WordDetail has no audio.
C3_AudioFailureStillResolves ==
    [][\A k \in 1..Len(lookups) :
          (/\ k = Len(lookups)
           /\ lookups[k].text = "full"
           /\ ~lookups[k].returned
           /\ \E outcome \in AudioOutcomes : AudioSettles(k, outcome))
              => /\ Resolved'
                 /\ AudioSettles(k, "data") \/ IsNull(Val(wordDetails').audioBase64)]_vars

\* C4: a call whose two provider calls were issued returns, and the attempt
\* leaves Pending, only when both of them have settled.
C4_ReturnsAfterBothSettle ==
    [][\A k \in 1..Len(lookups) :
          (CallReturns(k) /\ lookups[k].text # "none")
              => lookups'[k].text # "pending" /\ lookups'[k].audio # "pending"]_vars

\* C5: a provider exception on the text call of the current attempt ends the
\* attempt Failed with the generic (ProviderError) message.
C5_ProviderErrorIsGeneric ==
    [][\A k \in 1..Len(lookups) :
          (/\ k = Len(lookups)
           /\ ~lookups[k].returned
           /\ TextSettles(k, "rejected"))
              => /\ Failed'
                 /\ error' = Some(GENERIC_MESSAGE)]_vars

\* C6: every WordDetail held as a result has both definition and
\* exampleSentences.
C6_ResultHasRequiredFields ==
    ~IsNull(wordDetails) =>
        /\ ~IsNull(Val(wordDetails).definition)
        /\ ~IsNull(Val(wordDetails).exampleSentences)

\* C7: a step that starts a lookup ends Pending: result and error cleared, the
\* term of the new call active, the loading flag set, the modal open.
C7_StartMovesToPending ==
    [][LookupStarts
          => /\ selectedTerm' = Some(lookups'[Len(lookups')].term)
             /\ IsNull(wordDetails')
             /\ IsNull(error')
             /\ isLoading'
             /\ isModalOpen']_vars

\* a second lookup is pending, started after the first one had returned
C7_Witness ==
    /\ Len(lookups) = 2
    /\ lookups[1].returned /\ ~lookups[2].returned
    /\ isLoading /\ IsNull(error) /\ IsNull(wordDetails)
    /\ selectedTerm = Some(lookups[2].term)

\* C25: in no reachable state are a result (wordDetails) and an error message
\* both set.
C25_ResultAndErrorExclusive ==
    ~(~IsNull(wordDetails) /\ ~IsNull(error))

\* no active term, no result, no error, not loading
Idle == IsNull(selectedTerm) /\ IsNull(wordDetails) /\ IsNull(error) /\ ~isLoading

\* C26: while the modal is closed, that is from a close or a clear until the
\* next lookup is started, the lookup state is Idle, whatever the calls of
\* abandoned lookups do.
C26_IdleWhileClosed ==
    ~isModalOpen => Idle

----------------------------------------------------------------------------
(* Claims about the progress of a lookup, under SpecLive *)

\* C28: when the provider calls of the attempt settle and no newer lookup is
\* started, a Pending attempt ends Resolved or Failed; the return of the call
\* clears the loading flag whether it brings a result, no payload, or an
\* error.
C28_PendingEndsResolvedOrFailed ==
    /\ isLoading ~> (Resolved \/ Failed)
    /\ [][\A k \in 1..Len(lookups) : CallReturns(k) => ~isLoading']_vars

\* the last attempt has ended Failed on a payload that did not parse or a
\* rejected call, after an earlier attempt had ended
C28_Witness ==
    /\ Len(lookups) = 2
    /\ NoCallOutstanding
    /\ Failed
    /\ error = Some(MALFORMED_MESSAGE)
    /\ IsNull(wordDetails)

----------------------------------------------------------------------------
(* Claims about the tokenizer, under SpecTok *)

RECURSIVE Concat(_)
Concat(strs) == IF Len(strs) = 0 THEN <<>> ELSE strs[1] \o Concat(Tail(strs))

\* the class of a code point
KindOf(c) ==
    IF IsLetter(c) \/ IsNumber(c) THEN "word"
    ELSE IF IsWhitespace(c) THEN "whitespace"
    ELSE "punctuation"

PartTypes == {processedTextParts[i].type : i \in 1..Len(processedTextParts)}

\* C8: the values of the parts, concatenated in order, are the input text; the
\* empty text has no parts.
C8_RoundTrip ==
    /\ Concat(mapValue(processedTextParts)) = inputText
    /\ (inputText = <<>>) => (processedTextParts = <<>>)

\* a text with a word, whitespace and punctuation has been tokenized
C8_Witness ==
    /\ PartTypes = {"word", "whitespace", "punctuation"}
    /\ Len(inputText) > Len(processedTextParts)

\* C9: every part is a non-empty run of code points of its own class, adjacent
\* parts differ in kind, and a part carries the lower-cased value as its key
\* exactly when it is a word.
C9_MaximalRuns ==
    \A i \in 1..Len(processedTextParts) :
        LET part == processedTextParts[i]
        IN /\ Len(part.value) > 0
           /\ \A k \in 1..Len(part.value) : KindOf(part.value[k]) = part.type
           /\ (i < Len(processedTextParts)) => (processedTextParts[i + 1].type # part.type)
           /\ (part.type = "word") => (part.originalWord = Some(toLowerCase(part.value)))
           /\ (part.type # "word") => IsNull(part.originalWord)

\* a word of several code points, one of them upper case, next to another part
C9_Witness ==
    \E i \in 1..Len(processedTextParts) :
        /\ processedTextParts[i].type = "word"
        /\ Len(processedTextParts[i].value) >= 2
        /\ Val(processedTextParts[i].originalWord) # processedTextParts[i].value
        /\ Len(processedTextParts) >= 2

\* C24: after a text change the parts are the tokenization of the current
\* text alone, scanned from position 0 with no part of the previous text left,
\* so a text yields the same parts whenever it is entered again; the ids of
\* the parts of one sequence are pairwise distinct.
C24_PartsAreTokenizationOfCurrentText ==
    /\ processedTextParts =
          (IF inputText = <<>> THEN <<>> ELSE TokenizeLoop(inputText, 0, <<>>))
    /\ \A i, j \in 1..Len(processedTextParts) :
          (processedTextParts[i].id = processedTextParts[j].id) => (i = j)

\* after an edit the text holds the same word twice: two parts with the same
\* value and key, and different ids
C24_Witness ==
    \E i, j \in 1..Len(processedTextParts) :
        /\ i < j
        /\ processedTextParts[i].type = "word"
        /\ processedTextParts[j].type = "word"
        /\ processedTextParts[i].originalWord = processedTextParts[j].originalWord
        /\ processedTextParts[i].id # processedTextParts[j].id

\* the passes through the body of the scanning loop from lastIndex on, counted
\* up to fuel
RECURSIVE Iterations(_, _, _)
Iterations(text, lastIndex, fuel) ==
    IF fuel = 0 THEN 0
    ELSE LET m == exec(text, lastIndex)
         IN IF IsNull(m) THEN 0
            ELSE 1 + Iterations(text, Val(m).lastIndex, fuel - 1)

\* C29: for the current text and for every text the next keystroke can make
\* of it, a match found by exec ends after the position the scan was at, and
\* the scanning loop ends within as many passes as the text has code points.
C29_TokenizationTerminates ==
    \A text \in {inputText} \cup Edits(inputText, MaxLen) :
        /\ \A p \in 0..Len(text) :
              LET m == exec(text, p)
              IN ~IsNull(m) => (Val(m).lastIndex > p /\ Val(m).lastIndex <= Len(text))
        /\ Iterations(text, 0, Len(text) + 1) <= Len(text)

\* a text of alternating kinds has been tokenized: the loop took one pass per
\* code point, the most the claim allows
C29_Witness ==
    /\ Len(inputText) >= 3
    /\ Iterations(inputText, 0, Len(inputText) + 1) = Len(inputText)
    /\ Len(processedTextParts) = Len(inputText)

----------------------------------------------------------------------------
(* Claims about clicks and selections, under SpecSel *)

\* the values of the word parts at indices lo..hi, joined by single spaces
RECURSIVE WordsBetween(_, _)
WordsBetween(lo, hi) ==
    IF lo > hi THEN <<>>
    ELSE LET rest == WordsBetween(lo + 1, hi)
             part == processedTextParts[lo + 1]
         IN IF part.type # "word" THEN rest
            ELSE IF rest = <<>> THEN part.value
            ELSE part.value \o <<" ">> \o rest

WordCount(lo, hi) ==
    Cardinality({i \in lo..hi : processedTextParts[i + 1].type = "word"})

\* C10: a click on a word part looks up its lower-cased value; a mouseup that
\* starts a lookup had a range over two or more word parts and looks up the
\* values of exactly the word parts of the inclusive span, in order, joined by
\* single spaces.
C10_LookupTerm ==
    [][LookupStarts =>
        /\ \A index \in 0..(Len(processedTextParts) - 1) :
              WordClick(index)
                  => selectedTerm' = Some(toLowerCase(processedTextParts[index + 1].value))
        /\ \A selection \in Selections :
              handleMouseUp(selection)
                  => LET lo == Min(selection.startIdx, selection.endIdx)
                         hi == Max(selection.startIdx, selection.endIdx)
                     IN /\ selection.kind = "range" /\ lo >= 0
                        /\ WordCount(lo, hi) >= 2
                        /\ selectedTerm' = Some(WordsBetween(lo, hi))
                        /\ lookups'[Len(lookups')].term = WordsBetween(lo, hi)]_vars

\* a phrase with an upper-case letter was looked up across punctuation
C10_Witness ==
    /\ ~IsNull(selectedTerm)
    /\ \E k \in 1..Len(Val(selectedTerm)) : Val(selectedTerm)[k] = " "
    /\ \E k \in 1..Len(Val(selectedTerm)) : Val(selectedTerm)[k] = "B"
    /\ "punctuation" \in PartTypes

\* the index of the k-th word part of the span lo..hi
NthWord(lo, hi, k) ==
    CHOOSE i \in lo..hi :
        processedTextParts[i + 1].type = "word" /\ WordCount(lo, i) = k

\* the part indices a selection endpoint can map to
PartIndices == 0..(Len(processedTextParts) - 1)

\* C11: for every span of mapped indices, the word parts handleMouseUp keeps
\* are exactly the word parts of the inclusive slice, in order: none of them
\* (NonWordSelection), that one part (SingleWord), or the two or more parts
\* of the phrase (Phrase), by the number of word parts in the slice.
C11_ClassifiesByWordCount ==
    \A i \in PartIndices, j \in PartIndices :
        LET lo == Min(i, j)
            hi == Max(i, j)
            n == WordCount(lo, hi)
            selectedWordParts == SelectedWordParts(i, j)
        IN /\ Len(selectedWordParts) = n
           /\ \A k \in 1..n :
                 selectedWordParts[k] = processedTextParts[NthWord(lo, hi, k) + 1]

\* a phrase of three word parts was looked up, on a text that also has spans
\* with no word part and with exactly one
C11_Witness ==
    /\ Len(lookups) = 1
    /\ Cardinality({k \in 1..Len(lookups[1].term) : lookups[1].term[k] = " "}) = 2
    /\ \E i \in PartIndices : WordCount(i, i) = 0
    /\ \E i \in PartIndices, j \in PartIndices : i < j /\ WordCount(i, j) = 1

\* a selection that is missing, collapsed, outside the text, has an endpoint
\* on no part, or covers no word part
IgnoredSelection(selection) ==
    \/ selection.kind # "range"
    \/ selection.startIdx = -1
    \/ selection.endIdx = -1
    \/ WordCount(Min(selection.startIdx, selection.endIdx),
                 Max(selection.startIdx, selection.endIdx)) = 0

\* C12: a mouseup whose selection is missing, collapsed, has an endpoint that
\* maps to no part, or covers only whitespace and punctuation parts starts no
\* lookup and leaves the lookup state and the saved list unchanged.
C12_IgnoredSelectionChangesNothing ==
    [][(LookupStarts \/ lookupVars' # lookupVars \/ savedWords' # savedWords)
          => \A selection \in Selections :
                IgnoredSelection(selection) => ~handleMouseUp(selection)]_vars

\* no lookup has been started on a text that has a span of several parts
\* without a word part, next to a word
C12_Witness ==
    /\ lookups = <<>> /\ ~isModalOpen /\ ~isLoading /\ IsNull(selectedTerm)
    /\ "word" \in PartTypes
    /\ \E i \in PartIndices, j \in PartIndices : i < j /\ WordCount(i, j) = 0

\* the selection with its endpoints on the parts i and j
Span(i, j) == [kind |-> "range", startIdx |-> i, endIdx |-> j]

\* C13: span direction does not matter: a mouseup whose span runs from part i
\* to part j does exactly what a mouseup whose span runs from j to i does; a
\* lookup one of them starts is the lookup the other starts, of the same term.
C13_DirectionDoesNotMatter ==
    [][LookupStarts
          => \A i \in PartIndices, j \in PartIndices :
                handleMouseUp(Span(i, j)) <=> handleMouseUp(Span(j, i))]_vars

\* a phrase was looked up on a text whose first and last parts are words of
\* different values, so that the two directions differ in their endpoints
C13_Witness ==
    /\ Len(lookups) = 1
    /\ Len(processedTextParts) >= 3
    /\ processedTextParts[1].type = "word"
    /\ processedTextParts[Len(processedTextParts)].type = "word"
    /\ processedTextParts[1].value # processedTextParts[Len(processedTextParts)].value
    /\ lookups[1].term = WordsBetween(0, Len(processedTextParts) - 1)

----------------------------------------------------------------------------
(* Claims about the saved list, under SpecStore *)

\* this step is a call of handleSaveWord
SaveStep == \E t \in 0..MaxClock : handleSaveWord(t)

\* this step is a call of handleRemoveWord
RemoveStep == \E term \in StoreTerms, lang \in Language : handleRemoveWord(term, lang)

\* the pair (term, sourceLanguage) is in the list
InStore(term, lang) ==
    \E i \in 1..Len(savedWords) :
        savedWords[i].term = term /\ savedWords[i].sourceLanguage = lang

\* C14: the saved list holds at most one entry per (term, sourceLanguage).
C14_OneEntryPerPair ==
    \A i \in 1..Len(savedWords), j \in 1..Len(savedWords) :
        (/\ savedWords[i].term = savedWords[j].term
         /\ savedWords[i].sourceLanguage = savedWords[j].sourceLanguage) => i = j

\* the same term is saved under two source languages, the second after a
\* detection changed the language
C14_Witness ==
    /\ Len(savedWords) = 2
    /\ savedWords[1].term = savedWords[2].term
    /\ savedWords[1].sourceLanguage = ENGLISH
    /\ savedWords[2].sourceLanguage = SPANISH

\* C15: a call of handleSaveWord while the pair (selectedTerm, source
\* language) is already in the list leaves the list exactly as it was: the
\* earlier entry keeps its details, targetLanguage and savedAt.
C15_SaveExistingPairChangesNothing ==
    [][(/\ ~IsNull(selectedTerm)
        /\ InStore(Val(selectedTerm), effectiveSourceLanguage)
        /\ SaveStep)
          => savedWords' = savedWords]_vars

\* handleSaveWord was called at time 1 for a displayed term whose pair was
\* saved at time 0 with other details, the list being full since time 0: the
\* entries are as they were
C15_Witness ==
    /\ Displayed
    /\ InStore(Val(selectedTerm), effectiveSourceLanguage)
    /\ now = 1
    /\ Len(savedWords) = MaxSaved
    /\ \A i \in 1..Len(savedWords) :
          /\ savedWords[i].savedAt = 0
          /\ (savedWords[i].sourceLanguage = effectiveSourceLanguage)
                => savedWords[i].details # Val(wordDetails)

\* the list without its entry at position i
WithoutEntry(i) ==
    [k \in 1..(Len(savedWords) - 1) |->
        IF k < i THEN savedWords[k] ELSE savedWords[k + 1]]

detectionVars == <<detectedSourceLanguage, isDetectingLanguage, handler, detections>>

\* C16: a call of handleRemoveWord for a pair deletes the one entry with that
\* pair when there is one and changes nothing otherwise; the other entries
\* keep their order, and the lookup state and the detection state are not
\* touched.
C16_RemoveDeletesThatEntryOnly ==
    [][\A term \in StoreTerms, lang \in Language :
          handleRemoveWord(term, lang)
              => /\ IF InStore(term, lang)
                    THEN \E i \in 1..Len(savedWords) :
                            /\ savedWords[i].term = term
                            /\ savedWords[i].sourceLanguage = lang
                            /\ savedWords' = WithoutEntry(i)
                    ELSE savedWords' = savedWords
                 /\ UNCHANGED <<lookupVars, lookups, detectionVars>>]_vars

\* of the two pairs of the term only the Spanish one, saved at time 1, is in
\* the list, with a lookup pending and a detection outstanding
C16_Witness ==
    /\ Len(savedWords) = 1
    /\ savedWords[1].sourceLanguage = SPANISH
    /\ savedWords[1].savedAt = 1
    /\ isLoading /\ ~NoCallOutstanding
    /\ isDetectingLanguage /\ Len(detections) = 1

\* the position of an entry in a list
PositionIn(entry, list) == CHOOSE i \in 1..Len(list) : list[i] = entry

\* C17: the list is in insertion order: a step that adds an entry puts it
\* after all the entries already there, and every other step keeps the
\* remaining entries in the order they had.
C17_InsertionOrder ==
    [][IF Len(savedWords') > Len(savedWords)
       THEN /\ Len(savedWords') = Len(savedWords) + 1
            /\ SubSeq(savedWords', 1, Len(savedWords)) = savedWords
       ELSE /\ \A a \in 1..Len(savedWords') :
                  \E i \in 1..Len(savedWords) : savedWords[i] = savedWords'[a]
            /\ \A a \in 1..Len(savedWords'), b \in 1..Len(savedWords') :
                  a < b => PositionIn(savedWords'[a], savedWords)
                              < PositionIn(savedWords'[b], savedWords)]_vars

\* two entries, the one saved later last
C17_Witness ==
    /\ Len(savedWords) = 2
    /\ savedWords[1].savedAt = 0
    /\ savedWords[2].savedAt = 1

\* C18: the list grows only by a call of handleSaveWord made while a term is
\* active, a result is present and the lookup is not pending; a call made in
\* any other state leaves the list as it was; and the list changes only by
\* calls of handleSaveWord and handleRemoveWord, never by a lookup, a
\* detection or a text change.
C18_InsertOnlyBySaveOfResult ==
    [][/\ Len(savedWords') > Len(savedWords)
            => /\ SaveStep
               /\ ~IsNull(selectedTerm) /\ ~IsNull(wordDetails) /\ ~isLoading
       /\ (SaveStep /\ (IsNull(selectedTerm) \/ IsNull(wordDetails) \/ isLoading))
            => savedWords' = savedWords
       /\ savedWords' # savedWords => SaveStep \/ RemoveStep]_vars

\* handleSaveWord was called at time 1 with a result present and no active
\* term (a result that arrived after the modal was closed): nothing was saved
C18_Witness ==
    /\ IsNull(selectedTerm) /\ ~IsNull(wordDetails) /\ ~isLoading
    /\ now = 1
    /\ savedWords = <<>>
    /\ Len(lookups) = 1

----------------------------------------------------------------------------
(* Claims about language detection, under SpecDet *)

\* this step is a text change
TextChanges == inputText' # inputText

\* this step starts a detectLanguage call
DetectionStarts == Len(detections') > Len(detections)

\* C19, as stated: when the quiet period after the last change of a burst to
\* a text that is not empty elapses, exactly one detectLanguage call is made,
\* with that text.
C19_ExactlyOneCall ==
    [][(autoDetect /\ Len(inputText) > 0)
          => detections' = Append(detections, inputText)]_vars

\* C19, amended: a text change starts no call and leaves one timer, for the
\* new text; when the timer fires it is spent, and exactly one call is made,
\* with the current text, if that has a character that is not whitespace, and
\* none otherwise; calls are started by the timer alone.
C19_Debounce ==
    [][/\ TextChanges
            => /\ detections' = detections
               /\ handler' = Some([text |-> inputText'])
       /\ autoDetect
            => /\ IsNull(handler')
               /\ detections' = IF \E k \in 1..Len(inputText) : ~IsWhitespace(inputText[k])
                                THEN Append(detections, inputText)
                                ELSE detections
       /\ DetectionStarts => autoDetect]_vars

\* a text of two code points, typed in two changes or more, whose timer has
\* fired: one call is outstanding, with the final text, and no timer is left
C19_Witness ==
    /\ Len(inputText) = 2
    /\ detections = <<inputText>>
    /\ IsNull(handler)
    /\ isDetectingLanguage

\* C20: while the input text is empty the detection state is (null, false):
\* it is reset at once when the text becomes empty, and a call that was
\* outstanding then does not change it when it returns.
C20_EmptyTextResetsDetection ==
    (inputText = <<>>) => (IsNull(detectedSourceLanguage) /\ ~isDetectingLanguage)

\* this step is the return of detectLanguage call i
DetectionReturnStep(i) == \E lang \in DetectLanguageReturns : DetectionReturns(i, lang)

\* C21: isDetectingLanguage is true while a detectLanguage call is outstanding
\* for a text that is not empty; stated for the case the claim names: when one
\* of two outstanding calls returns and the text is not empty, the other is
\* still outstanding and isDetectingLanguage stays true.
C21_DetectingWhileCallOutstanding ==
    [][\A i \in 1..Len(detections) :
          (Len(detections) >= 2 /\ inputText # <<>> /\ DetectionReturnStep(i))
              => isDetectingLanguage']_vars

\* C27: every saved entry records the source language of the lookup that
\* produced its details, the language its definition was asked and given in.
C27_EntryRecordsLookupLanguages ==
    \A i \in 1..Len(savedWords) :
        ~IsNull(savedWords[i].details.definition)
            => Val(savedWords[i].details.definition).language
                  = savedWords[i].sourceLanguage

\* C23: the return of a detectLanguage call made before another call that is
\* outstanding (a call for an older text) does not set
\* detectedSourceLanguage.
C23_LateDetectionIgnored ==
    [][\A i \in 1..Len(detections) :
          (i < Len(detections) /\ DetectionReturnStep(i))
              => detectedSourceLanguage' = detectedSourceLanguage]_vars

----------------------------------------------------------------------------
(* Claims about the languages of a lookup, under SpecLang *)

\* C22: a WordDetail produced by a lookup whose source language is its target
\* language has no translation, whatever the text payload holds: a
\* translation that is present is into another language than the one the
\* definition is in.
C22_NoTranslationIntoSourceLanguage ==
    (~IsNull(wordDetails) /\ ~IsNull(Val(wordDetails).translation))
        => Val(Val(wordDetails).translation).language
              # Val(Val(wordDetails).definition).language

====
